---- MODULE Spec2Model ----
(***************************************************************************)
(* json-encrypt-cli: the envelope codec (encryptData / decryptData) and    *)
(* the file operations built on it (batch-enc, batch-dec, dec).            *)
(*                                                                         *)
(* The code of the repository is modelled statement by statement.  The     *)
(* calls into node's crypto library are modelled by their contract:        *)
(*   - scryptSync is a deterministic, collision-free function of           *)
(*     (secret, salt, length);                                             *)
(*   - randomBytes(16) returns a value it has not returned before          *)
(*     (a repetition has probability 2^-128);                              *)
(*   - GCM: final() succeeds exactly when (key, iv, aad, ciphertext, tag)  *)
(*     are those of one encryption (a forgery has probability 2^-128);     *)
(*     the ciphertext is plaintext + keystream, byte by byte, as long as   *)
(*     the plaintext; the keystream is a function of key and iv, and the   *)
(*     keystreams of two ivs always differ over a whole block but can      *)
(*     agree on a shorter prefix (one pair of ivs in 2^8 for one byte);    *)
(*   - CBC: PKCS#7 padding to whole blocks, each block chained to the      *)
(*     previous one; decrypting a ciphertext with the key and iv it was    *)
(*     made with inverts it; with any other key, iv or mode the padding    *)
(*     check either throws or lets through bytes that are no JSON text.    *)
(* Which of these outcomes happens is an input of the actions.             *)
(***************************************************************************)
EXTENDS Integers, Sequences, FiniteSets, TLC

VARIABLES fs, sealed, drawn, run, ops, fs0, nruns, calls, dec, dirs, found, cfg,
          first

vars ==
  <<fs, sealed, drawn, run, ops, fs0, nruns, calls, dec, dirs, found, cfg, first>>

(***************************************************************************)
(* Bounds of the model.                                                    *)
(***************************************************************************)
NumRandom == 3      \* values the random source can return
NumPrefixes == 2    \* classes of ivs with distinct GCM keystream prefixes
MaxRuns == 1        \* commands run on the directory after its initial state

(***************************************************************************)
(* Text, UTF-8 and JSON.  A text is a sequence of characters; "?" stands   *)
(* for U+FFFD, the character a UTF-8 decoder puts for an invalid byte.     *)
(***************************************************************************)
Invalid == <<"SyntaxError">>

Utf8Char(c) ==
  CASE c = "1" -> <<49>>
    [] c = "[" -> <<91>>
    [] c = "]" -> <<93>>
    [] c = " " -> <<32>>
    [] c = "\n" -> <<10>>
    [] c = "x" -> <<120>>
    [] OTHER   -> <<239, 191, 189>>

RECURSIVE Utf8Encode(_)
Utf8Encode(t) ==
  IF t = <<>> THEN <<>> ELSE Utf8Char(Head(t)) \o Utf8Encode(Tail(t))

RECURSIVE Utf8Decode(_)
Utf8Decode(b) ==
  IF b = <<>> THEN <<>>
  ELSE IF Len(b) >= 3 /\ SubSeq(b, 1, 3) = <<239, 191, 189>>
       THEN <<"?">> \o Utf8Decode(SubSeq(b, 4, Len(b)))
  ELSE LET c == CASE b[1] = 49  -> "1"
                  [] b[1] = 91  -> "["
                  [] b[1] = 93  -> "]"
                  [] b[1] = 32  -> " "
                  [] b[1] = 10  -> "\n"
                  [] b[1] = 120 -> "x"
                  [] OTHER      -> "?"
       IN <<c>> \o Utf8Decode(Tail(b))

WhiteSpace == {" ", "\n"}

RECURSIVE Trim(_)
Trim(t) ==
  IF t = <<>> THEN t
  ELSE IF Head(t) \in WhiteSpace THEN Trim(Tail(t))
  ELSE IF t[Len(t)] \in WhiteSpace THEN Trim(SubSeq(t, 1, Len(t) - 1))
  ELSE t

\* JSON.parse of a text: the parsed value (written without white space), or
\* Invalid when JSON.parse throws a SyntaxError.  The grammar is JSON's for
\* the characters of the model: numbers of digits 1, arrays of one or no
\* element, white space around every token.
RECURSIVE JsonParseText(_)
JsonParseText(t) ==
  LET s == Trim(t) IN
  IF s = <<>> THEN Invalid
  ELSE IF \A i \in 1..Len(s) : s[i] = "1" THEN s
  ELSE IF Len(s) >= 2 /\ s[1] = "[" /\ s[Len(s)] = "]"
       THEN LET inner == Trim(SubSeq(s, 2, Len(s) - 1)) IN
            IF inner = <<>> THEN <<"[", "]">>
            ELSE LET v == JsonParseText(inner) IN
                 IF v = Invalid THEN Invalid ELSE <<"[">> \o v \o <<"]">>
  ELSE Invalid

\* JSON.stringify(value, null, 2) of a parsed value
RECURSIVE JsonStringify(_, _)
JsonStringify_Empty(v, depth) == <<"[", "]">>

JsonStringify(v, depth) ==
  IF v[1] # "[" \/ Len(v) = 2 THEN v
  ELSE <<"[", "\n">> \o [i \in 1..(2 * (depth + 1)) |-> " "]
       \o JsonStringify(SubSeq(v, 2, Len(v) - 1), depth + 1)
       \o <<"\n">> \o [i \in 1..(2 * depth) |-> " "] \o <<"]">>

(***************************************************************************)
(* Hex strings: toString('hex') and Buffer.from(h, 'hex').                 *)
(***************************************************************************)
ToHex(b) ==
  [i \in 1..(2 * Len(b)) |->
     IF i % 2 = 1 THEN b[(i + 1) \div 2] \div 16 ELSE b[i \div 2] % 16]

FromHex(h) ==
  [i \in 1..(Len(h) \div 2) |-> h[2 * i - 1] * 16 + h[2 * i]]

(***************************************************************************)
(* Algorithm names.  A name is the sequence of its parts, so that          *)
(* algorithm.includes('256') is a test on the name as in the code.         *)
(***************************************************************************)
ALGORITHMS ==
  { <<"aes", "256", "cbc">>, <<"aes", "192", "cbc">>, <<"aes", "128", "cbc">>,
    <<"aes", "256", "gcm">>, <<"aes", "192", "gcm">>, <<"aes", "128", "gcm">> }

includes(algorithm, part) == \E i \in 1..Len(algorithm) : algorithm[i] = part

IvLen == 16
BlockLen == IvLen   \* an AES block, the length CBC asks of an iv
TagLen == 16

\* crypto.scryptSync(secret, salt, keylen)
scryptSync(secretKey, salt, keyLength) ==
  [secret |-> secretKey, salt |-> salt, len |-> keyLength]

\* the key length createCipheriv / createDecipheriv ask of a cipher name
CipherKeyLen(algorithm) ==
  IF algorithm[2] = "256" THEN 32 ELSE IF algorithm[2] = "192" THEN 24 ELSE 16

SecretCode(s) == CASE s = "s1" -> 1 [] s = "s2" -> 2 [] OTHER -> 3

KeyByte(key, i) == (SecretCode(key.secret) * 13 + key.len + i) % 256

\* crypto.randomBytes(16): the n-th value of the random source
RandomValue(n) == [i \in 1..IvLen |-> (n * 16 + i) % 256]

RandomPool == { RandomValue(n) : n \in 1..NumRandom }

\* keystream byte i of the GCM cipher for (key, iv), a function of key and
\* iv: over a whole block two ivs never give the same bytes, on a proper
\* prefix of a block they can (NumPrefixes classes of ivs)
PrefixClass(key, iv) == (iv[1] \div 16 + SecretCode(key.secret)) % NumPrefixes

KeyStream(key, iv, i) ==
  IF i % BlockLen = 0 THEN (KeyByte(key, i) + iv[1] + i) % 256
  ELSE (PrefixClass(key, iv) * 17 + KeyByte(key, i) + i * 7) % 256

GcmUpdate(pt, key, iv) ==
  [i \in 1..Len(pt) |-> (pt[i] + KeyStream(key, iv, i)) % 256]

GcmInverse(ct, key, iv) ==
  [i \in 1..Len(ct) |-> (ct[i] + 256 - KeyStream(key, iv, i)) % 256]

GcmTag(ct, key, iv) ==
  [i \in 1..TagLen |-> (KeyByte(key, i) + iv[i] + Len(ct)) % 256]

\* PKCS#7 padding, added by cipher.final() in CBC mode
Pkcs7Pad(pt) ==
  LET n == BlockLen - (Len(pt) % BlockLen) IN pt \o [i \in 1..n |-> n]

BadPadding == <<-1>>

\* the padding check of decipher.final(): the bytes without their padding, or
\* BadPadding ("bad decrypt")
Pkcs7Unpad(b) ==
  IF b = <<>> THEN BadPadding
  ELSE LET n == b[Len(b)] IN
       IF n >= 1 /\ n <= BlockLen /\ n <= Len(b)
          /\ \A i \in (Len(b) - n + 1)..Len(b) : b[i] = n
       THEN SubSeq(b, 1, Len(b) - n)
       ELSE BadPadding

RECURSIVE CbcBlocks(_, _, _, _)
CbcBlocks(padded, key, iv, upto) ==
  IF upto = 0 THEN <<>>
  ELSE LET before == CbcBlocks(padded, key, iv, upto - 1)
           prev == IF upto <= BlockLen THEN iv[upto] ELSE before[upto - BlockLen]
       IN Append(before, (padded[upto] + prev + KeyByte(key, upto)) % 256)

CbcUpdate(pt, key, iv) ==
  LET padded == Pkcs7Pad(pt) IN CbcBlocks(padded, key, iv, Len(padded))

CbcInverse(ct, key, iv) ==
  [i \in 1..Len(ct) |->
     LET prev == IF i <= BlockLen THEN iv[i] ELSE ct[i - BlockLen]
     IN (ct[i] + 512 - prev - KeyByte(key, i)) % 256]

(***************************************************************************)
(* The cipher objects of node's crypto module.                             *)
(***************************************************************************)
\* createCipheriv / createDecipheriv accept the cipher name, the key length
\* the cipher asks for and, in CBC mode, an iv of one block
CipherInitOk(algorithm, key, iv) ==
  /\ algorithm \in ALGORITHMS
  /\ key.len = CipherKeyLen(algorithm)
  /\ IF includes(algorithm, "gcm") THEN Len(iv) >= 1 ELSE Len(iv) = BlockLen

\* what one encryption leaves in the world: decryption with the same key,
\* iv (and aad, tag) inverts it
Sealed(mode, key, iv, aad, ct, tag) ==
  [mode |-> mode, key |-> key, iv |-> iv, aad |-> aad, ct |-> ct, tag |-> tag]

NoText == <<>>

Thrown(message, trace) ==
  [ok |-> FALSE, text |-> NoText, error |-> message, ops |-> trace]

Returned(text, trace) ==
  [ok |-> TRUE, text |-> text, error |-> "", ops |-> trace]

Truthy(obj, field) == field \in DOMAIN obj /\ obj[field] # <<>>

(***************************************************************************)
(* encryptData (batch-enc).  rnd is the value the random source returns.   *)
(***************************************************************************)
\* crypto.randomBytes(size)
randomBytes_Zeroes(size, rnd) == [i \in 1..size |-> 0]

randomBytes(size, rnd) == SubSeq(rnd, 1, size)

\* the object encryptData returns in GCM mode
gcmEnvelope(iv, authTag, encrypted) ==
  [iv |-> ToHex(iv), authTag |-> ToHex(authTag), encrypted |-> ToHex(encrypted)]

\* the object encryptData returns in the other modes
cbcEnvelope_Named(iv, encrypted) ==
  [algorithm |-> "cbc", iv |-> ToHex(iv), encrypted |-> ToHex(encrypted)]

cbcEnvelope(iv, encrypted) ==
  [iv |-> ToHex(iv), encrypted |-> ToHex(encrypted)]

encryptData(data, algorithm, secretKey, rnd) ==
  LET key == scryptSync(secretKey, "salt",
                        IF includes(algorithm, "256") THEN 32
                        ELSE IF includes(algorithm, "192") THEN 24 ELSE 16)
  IN
  IF includes(algorithm, "gcm")
  THEN LET iv == randomBytes(16, rnd) IN
       IF ~CipherInitOk(algorithm, key, iv)
       THEN [ok |-> FALSE, error |-> "cipher init"]
       ELSE LET encrypted == GcmUpdate(Utf8Encode(data), key, iv)
                authTag == GcmTag(encrypted, key, iv)
            IN [ok |-> TRUE,
                env |-> gcmEnvelope(iv, authTag, encrypted),
                seal |-> Sealed("gcm", key, iv, "json-encrypt", encrypted, authTag)]
  ELSE LET iv == randomBytes(16, rnd) IN
       IF ~CipherInitOk(algorithm, key, iv)
       THEN [ok |-> FALSE, error |-> "cipher init"]
       ELSE LET encrypted == CbcUpdate(Utf8Encode(data), key, iv)
            IN [ok |-> TRUE,
                env |-> cbcEnvelope(iv, encrypted),
                seal |-> Sealed("cbc", key, iv, "", encrypted, <<>>)]

(***************************************************************************)
(* decryptData (batch-dec.js).  table holds what the encryptions so far    *)
(* sealed; g is what CBC decryption does with a ciphertext that was not    *)
(* made with this key and iv: it throws, or returns the bytes g.bytes.     *)
(***************************************************************************)
GcmFinal(table, key, iv, ct, tagSet, tag, aad, trace) ==
  LET match == { e \in table : /\ e.mode = "gcm"
                               /\ e.key = key
                               /\ e.iv = iv
                               /\ e.aad = aad
                               /\ e.ct = ct
                               /\ tagSet
                               /\ e.tag = tag }
  IN IF match = {}
     THEN Thrown("Unsupported state or unable to authenticate data", trace)
     ELSE Returned(Utf8Decode(GcmInverse(ct, key, iv)), trace)

CbcFinal(table, key, iv, ct, g, trace) ==
  IF ct = <<>> \/ Len(ct) % BlockLen # 0
  THEN Thrown("wrong final block length", trace)
  ELSE IF \E e \in table : e.mode = "cbc" /\ e.key = key /\ e.iv = iv /\ e.ct = ct
  THEN LET pt == Pkcs7Unpad(CbcInverse(ct, key, iv)) IN
       IF pt = BadPadding THEN Thrown("bad decrypt", trace)
       ELSE Returned(Utf8Decode(pt), trace)
  ELSE IF g.throws THEN Thrown("bad decrypt", trace)
  ELSE Returned(Utf8Decode(g.bytes), trace)

\* const keyLength = ... of decryptData
keyLength_192as128(algorithm) ==
  IF includes(algorithm, "256") THEN 32 ELSE 16

keyLength(algorithm) ==
  IF includes(algorithm, "256") THEN 32
  ELSE IF includes(algorithm, "192") THEN 24 ELSE 16

\* const key = crypto.scryptSync(secretKey, 'salt', keyLength) of decryptData
deriveKey_FixedSecret(secretKey, length) == scryptSync("s1", "salt", length)

deriveKey(secretKey, length) == scryptSync(secretKey, "salt", length)

decryptData(encryptedData, algorithm, secretKey, table, g) ==
  LET key == deriveKey(secretKey, keyLength(algorithm))
      iv == FromHex(encryptedData.iv)
  IN
  IF includes(algorithm, "gcm")
  THEN IF ~CipherInitOk(algorithm, key, iv)
       THEN Thrown("cipher init", <<"scrypt", "createDecipheriv">>)
       ELSE LET tagSet == Truthy(encryptedData, "authTag")
                tag == IF tagSet THEN FromHex(encryptedData.authTag) ELSE <<>>
                trace == <<"scrypt", "createDecipheriv">>
                         \o (IF tagSet THEN <<"setAuthTag">> ELSE <<>>)
                         \o <<"setAAD", "update", "final">>
            IN GcmFinal(table, key, iv, FromHex(encryptedData.encrypted),
                        tagSet, tag, "json-encrypt", trace)
  ELSE IF ~CipherInitOk(algorithm, key, iv)
       THEN Thrown("cipher init", <<"scrypt", "createDecipheriv">>)
       ELSE CbcFinal(table, key, iv, FromHex(encryptedData.encrypted), g,
                     <<"scrypt", "createDecipheriv", "update", "final">>)

(***************************************************************************)
(* decryptData (dec.js).                                                   *)
(***************************************************************************)
dec_keyLength(algorithm) ==
  IF includes(algorithm, "256") THEN 32
  ELSE IF includes(algorithm, "192") THEN 24 ELSE 16

dec_decryptData(encryptedData, algorithm, secretKey, table, g) ==
  LET key == scryptSync(secretKey, "salt", dec_keyLength(algorithm))
      iv == FromHex(encryptedData.iv)
  IN
  IF includes(algorithm, "gcm")
  THEN IF ~CipherInitOk(algorithm, key, iv)
       THEN Thrown("cipher init", <<"scrypt", "createDecipheriv">>)
       ELSE LET tagSet == Truthy(encryptedData, "authTag")
                tag == IF tagSet THEN FromHex(encryptedData.authTag) ELSE <<>>
                trace == <<"scrypt", "createDecipheriv">>
                         \o (IF tagSet THEN <<"setAuthTag">> ELSE <<>>)
                         \o <<"setAAD", "update", "final">>
            IN GcmFinal(table, key, iv, FromHex(encryptedData.encrypted),
                        tagSet, tag, "json-encrypt", trace)
  ELSE IF ~CipherInitOk(algorithm, key, iv)
       THEN Thrown("cipher init", <<"scrypt", "createDecipheriv">>)
       ELSE CbcFinal(table, key, iv, FromHex(encryptedData.encrypted), g,
                     <<"scrypt", "createDecipheriv", "update", "final">>)

(***************************************************************************)
(* The file system.  A path is its directory, the stem of its name and     *)
(* its extension; a file holds a text, or the JSON text of an object       *)
(* (an envelope: the object's fields are kept).  The tree (dirs) says what *)
(* the root path is, whether the root holds an entry that cannot be        *)
(* stat'ed (a dangling link) and what its subdirectory is.                 *)
(***************************************************************************)
Stems == {"a", "b"}
Exts == {".json", ".enc", ".JSON", ".ENC"}

Path(stem, ext) == [dir |-> "root", stem |-> stem, ext |-> ext]

SubPath(stem, ext) == [dir |-> "root/sub", stem |-> stem, ext |-> ext]

Paths ==
  { Path(st, e) : st \in Stems, e \in {".json", ".enc"} }
  \cup { Path("a", ".JSON"), Path("a", ".ENC") }
  \cup { SubPath("a", ".json"), SubPath("a", ".enc") }

Trees == [root : {"dir", "missing", "file"}, link : BOOLEAN,
          sub : {"absent", "dir", "locked"}]

\* an entry of a directory: a file path, the dangling link, the subdirectory
Item(p) == [kind |-> "path", path |-> p, dir |-> p.dir]

LinkItem == [kind |-> "link", path |-> Path("l", ""), dir |-> "root"]

SubItem == [kind |-> "dir", path |-> Path("sub", ""), dir |-> "root/sub"]

\* the names a directory can hold, in the order it lists them
Listing(dir) ==
  IF dir = "root"
  THEN << Item(Path("a", ".json")), Item(Path("a", ".enc")),
          Item(Path("b", ".json")), Item(Path("b", ".enc")),
          Item(Path("a", ".JSON")), Item(Path("a", ".ENC")),
          LinkItem, SubItem >>
  ELSE << Item(SubPath("a", ".json")), Item(SubPath("a", ".enc")) >>

\* fs.readdirSync(dir) when it does not throw: the entries that are there
readdirSync(files, tree, dir) ==
  SelectSeq(Listing(dir),
            LAMBDA it : CASE it.kind = "path" -> files[it.path].exists
                          [] it.kind = "link" -> tree.link
                          [] OTHER            -> tree.sub # "absent")

\* fs.readdirSync(dir) throws on a path that is no readable directory
readdirError(tree, dir) ==
  IF dir = "root"
  THEN CASE tree.root = "missing" -> "ENOENT"
         [] tree.root = "file"    -> "ENOTDIR"
         [] OTHER                 -> ""
  ELSE IF tree.sub = "locked" THEN "EACCES" ELSE ""

\* fs.statSync(fullPath): what the entry is, or "throws"
statSync(item) ==
  CASE item.kind = "path" -> "file"
    [] item.kind = "link" -> "throws"
    [] OTHER              -> "directory"

NoObj == [none |-> <<>>]

Txt(t) == [kind |-> "text", text |-> t, obj |-> NoObj]
Obj(o) == [kind |-> "object", text |-> <<>>, obj |-> o]

Absent == [exists |-> FALSE, content |-> Txt(<<>>), readable |-> TRUE, writable |-> TRUE]

File(content, readable, writable) ==
  [exists |-> TRUE, content |-> content, readable |-> readable, writable |-> writable]

existsSync(files, p) == files[p].exists

\* fs.readFileSync(p, 'utf8')
readFileSync(files, p) ==
  IF ~files[p].exists THEN [ok |-> FALSE, error |-> "ENOENT", content |-> Txt(<<>>)]
  ELSE IF ~files[p].readable THEN [ok |-> FALSE, error |-> "EACCES", content |-> Txt(<<>>)]
  ELSE [ok |-> TRUE, error |-> "", content |-> files[p].content]

\* fs.writeFileSync(p, content)
writeFileSync(files, p, content) ==
  IF files[p].exists /\ ~files[p].writable
  THEN [ok |-> FALSE, error |-> "EACCES", fs |-> files]
  ELSE [ok |-> TRUE, error |-> "",
        fs |-> [files EXCEPT ![p] =
                  IF files[p].exists
                  THEN [files[p] EXCEPT !.content = content]
                  ELSE File(content, TRUE, TRUE)]]

\* JSON.parse of what a file holds: the object, the value of a text, or
\* Invalid
JsonParse(content) ==
  IF content.kind = "object" THEN [ok |-> TRUE, isObject |-> TRUE, obj |-> content.obj]
  ELSE IF JsonParseText(content.text) = Invalid
       THEN [ok |-> FALSE, isObject |-> FALSE, obj |-> NoObj]
       ELSE [ok |-> TRUE, isObject |-> FALSE, obj |-> NoObj]

\* JSON.stringify(encryptedData, null, 2)
JsonStringifyObject(o) == Obj(o)

toLowerCase(ext) ==
  CASE ext = ".JSON" -> ".json"
    [] ext = ".ENC"  -> ".enc"
    [] OTHER         -> ext

\* filePath.replace(/\.json$/i, '.enc')
ReplaceJsonSuffix(p) ==
  IF toLowerCase(p.ext) = ".json" THEN [p EXCEPT !.ext = ".enc"] ELSE p

ReplaceEncSuffix_Same(p) == p

\* filePath.replace(/\.enc$/i, '.json')
ReplaceEncSuffix(p) ==
  IF toLowerCase(p.ext) = ".enc" THEN [p EXCEPT !.ext = ".json"] ELSE p

\* filePath.replace(/\.enc$/, '.json') of dec.js
dec_ReplaceEncSuffix(p) ==
  IF p.ext = ".enc" THEN [p EXCEPT !.ext = ".json"] ELSE p

\* what discovery returns, or the error it throws
Found(list) == [threw |-> FALSE, error |-> "", files |-> list]

ScanThrew(message) == [threw |-> TRUE, error |-> message, files |-> <<>>]

\* stat.isDirectory() && recursive
descends_Always(isDirectory, recursive) == isDirectory

descends(isDirectory, recursive) == isDirectory /\ recursive

\* path.extname(item).toLowerCase() === '.json' (or '.enc')
extensionIs_AsWritten(item, ext) == item.path.ext = ext

extensionIs(item, ext) == toLowerCase(item.path.ext) = ext

\* scanDirectory(dir) of findJsonFiles and findEncFiles; scanItems is its
\* loop over the first n entries
RECURSIVE scanDirectory(_, _, _, _, _)
RECURSIVE scanItems(_, _, _, _, _, _)
scanItems(files, tree, items, n, recursive, ext) ==
  IF n = 0 THEN Found(<<>>)
  ELSE LET before == scanItems(files, tree, items, n - 1, recursive, ext)
           item == items[n]
           stat == statSync(item)
       IN IF before.threw THEN before
          ELSE IF stat = "throws" THEN ScanThrew("ENOENT")
          ELSE IF descends(stat = "directory", recursive)
          THEN LET below == scanDirectory(files, tree, item.dir, recursive, ext)
               IN IF below.threw THEN below
                  ELSE Found(before.files \o below.files)
          ELSE IF stat = "file" /\ extensionIs(item, ext)
          THEN Found(Append(before.files, item.path))
          ELSE before

scanDirectory(files, tree, dir, recursive, ext) ==
  IF readdirError(tree, dir) # ""
  THEN ScanThrew(readdirError(tree, dir))
  ELSE LET items == readdirSync(files, tree, dir)
       IN scanItems(files, tree, items, Len(items), recursive, ext)

\* findJsonFiles(directory, recursive)
findJsonFiles(files, tree, recursive) ==
  scanDirectory(files, tree, "root", recursive, ".json")

\* findEncFiles(directory, recursive)
findEncFiles(files, tree, recursive) ==
  scanDirectory(files, tree, "root", recursive, ".enc")

(***************************************************************************)
(* A file operation returns the file system it leaves, what it sealed,     *)
(* its outcome and the trace of the steps it ran.                          *)
(***************************************************************************)
Success(filePath, outputPath) ==
  [success |-> TRUE, inputFile |-> filePath, outputFile |-> outputPath]

Failure(filePath, message) ==
  [success |-> FALSE, inputFile |-> filePath, error |-> message]

Outcome(files, seals, result, trace) ==
  [fs |-> files, seals |-> seals, result |-> result, ops |-> trace, threw |-> FALSE]

\* an error that leaves the file operation uncaught
Escapes(files, seals, filePath, message, trace) ==
  [fs |-> files, seals |-> seals, result |-> Failure(filePath, message),
   ops |-> trace, threw |-> TRUE]

\* the catch block of encryptFile
encryptFile_catch_Rethrow(files, seals, filePath, message, trace) ==
  Escapes(files, seals, filePath, message, trace)

encryptFile_catch(files, seals, filePath, message, trace) ==
  Outcome(files, seals, Failure(filePath, message), trace)

\* the catch block of decryptFile (batch-dec.js)
decryptFile_catch_LeavesOutput(files, seals, filePath, message, trace) ==
  Outcome([files EXCEPT ![ReplaceEncSuffix(filePath)] = File(Txt(<<>>), TRUE, TRUE)],
          seals, Failure(filePath, message), trace)

decryptFile_catch(files, seals, filePath, message, trace) ==
  Outcome(files, seals, Failure(filePath, message), trace)

\* JSON.parse(decryptedData) of decryptFile (batch-dec.js): TRUE when it
\* throws
decryptedIsNoJson_Unchecked(text) == FALSE

decryptedIsNoJson(text) == JsonParseText(text) = Invalid

\* fs.existsSync(outputPath) && !overwrite of decryptFile (batch-dec.js)
outputBlocked_Never(files, outputPath, overwrite) == FALSE

outputBlocked_IgnoresOverwrite(files, outputPath, overwrite) ==
  existsSync(files, outputPath)

outputBlocked(files, outputPath, overwrite) ==
  existsSync(files, outputPath) /\ ~overwrite

\* encryptFile (batch-enc)
encryptFile(files, filePath, algorithm, secretKey, rnd) ==
  LET jsonData == readFileSync(files, filePath) IN
  IF ~jsonData.ok
  THEN encryptFile_catch(files, {}, filePath, jsonData.error, <<"read">>)
  ELSE IF ~JsonParse(jsonData.content).ok
  THEN encryptFile_catch(files, {}, filePath, "SyntaxError", <<"read", "parse">>)
  ELSE
  LET encryptedData == encryptData(jsonData.content.text, algorithm, secretKey, rnd) IN
  IF ~encryptedData.ok
  THEN encryptFile_catch(files, {}, filePath, encryptedData.error,
                         <<"read", "parse", "encrypt">>)
  ELSE
  LET outputPath == ReplaceJsonSuffix(filePath)
      written == writeFileSync(files, outputPath, JsonStringifyObject(encryptedData.env))
  IN
  IF ~written.ok
  THEN encryptFile_catch(files, {encryptedData.seal}, filePath, written.error,
                         <<"read", "parse", "encrypt", "write">>)
  ELSE Outcome(written.fs, {encryptedData.seal}, Success(filePath, outputPath),
               <<"read", "parse", "encrypt", "write">>)

\* decryptFile with the check of the output path moved to the front
decryptFile_OverwriteFirst(files, table, filePath, algorithm, secretKey, overwrite, g) ==
  IF outputBlocked(files, ReplaceEncSuffix(filePath), overwrite)
  THEN decryptFile_catch(files, {}, filePath, "Output file already exists",
                         <<"exists">>)
  ELSE
  LET encryptedContent == readFileSync(files, filePath)
      parsed == JsonParse(encryptedContent.content)
      encryptedData == parsed.obj
      decryptedData == decryptData(encryptedData, algorithm, secretKey, table, g)
      t1 == <<"exists", "read", "parse", "fields", "authTag">> \o decryptedData.ops
      written == writeFileSync(files, ReplaceEncSuffix(filePath),
                               Txt(decryptedData.text))
  IN
  IF ~encryptedContent.ok
  THEN decryptFile_catch(files, {}, filePath, encryptedContent.error,
                         <<"exists", "read">>)
  ELSE IF ~parsed.ok
  THEN decryptFile_catch(files, {}, filePath, "SyntaxError",
                         <<"exists", "read", "parse">>)
  ELSE IF ~Truthy(encryptedData, "iv") \/ ~Truthy(encryptedData, "encrypted")
  THEN decryptFile_catch(files, {}, filePath,
                         "Invalid encrypted file format: missing iv or encrypted data",
                         <<"exists", "read", "parse", "fields">>)
  ELSE IF includes(algorithm, "gcm") /\ ~Truthy(encryptedData, "authTag")
  THEN decryptFile_catch(files, {}, filePath,
                         "Invalid encrypted file format: missing authTag for GCM mode",
                         <<"exists", "read", "parse", "fields", "authTag">>)
  ELSE IF ~decryptedData.ok
  THEN decryptFile_catch(files, {}, filePath, decryptedData.error, t1)
  ELSE IF decryptedIsNoJson(decryptedData.text)
  THEN decryptFile_catch(files, {}, filePath, "SyntaxError", t1 \o <<"jsonparse">>)
  ELSE IF ~written.ok
  THEN decryptFile_catch(files, {}, filePath, written.error,
                         t1 \o <<"jsonparse", "write">>)
  ELSE Outcome(written.fs, {}, Success(filePath, ReplaceEncSuffix(filePath)),
               t1 \o <<"jsonparse", "write">>)

\* decryptFile (batch-dec.js)
decryptFile(files, table, filePath, algorithm, secretKey, overwrite, g) ==
  LET encryptedContent == readFileSync(files, filePath) IN
  IF ~encryptedContent.ok
  THEN decryptFile_catch(files, {}, filePath, encryptedContent.error, <<"read">>)
  ELSE
  LET parsed == JsonParse(encryptedContent.content)
      encryptedData == parsed.obj
  IN
  IF ~parsed.ok
  THEN decryptFile_catch(files, {}, filePath, "SyntaxError", <<"read", "parse">>)
  ELSE IF ~Truthy(encryptedData, "iv") \/ ~Truthy(encryptedData, "encrypted")
  THEN decryptFile_catch(files, {}, filePath,
                         "Invalid encrypted file format: missing iv or encrypted data",
                         <<"read", "parse", "fields">>)
  ELSE IF includes(algorithm, "gcm") /\ ~Truthy(encryptedData, "authTag")
  THEN decryptFile_catch(files, {}, filePath,
                         "Invalid encrypted file format: missing authTag for GCM mode",
                         <<"read", "parse", "fields", "authTag">>)
  ELSE
  LET decryptedData == decryptData(encryptedData, algorithm, secretKey, table, g)
      t1 == <<"read", "parse", "fields", "authTag">> \o decryptedData.ops
  IN
  IF ~decryptedData.ok
  THEN decryptFile_catch(files, {}, filePath, decryptedData.error, t1)
  ELSE IF decryptedIsNoJson(decryptedData.text)
  THEN decryptFile_catch(files, {}, filePath, "SyntaxError", t1 \o <<"jsonparse">>)
  ELSE
  LET outputPath == ReplaceEncSuffix(filePath)
      t2 == t1 \o <<"jsonparse", "exists">>
  IN
  IF outputBlocked(files, outputPath, overwrite)
  THEN decryptFile_catch(files, {}, filePath, "Output file already exists", t2)
  ELSE
  LET written == writeFileSync(files, outputPath, Txt(decryptedData.text)) IN
  IF ~written.ok
  THEN decryptFile_catch(files, {}, filePath, written.error, t2 \o <<"write">>)
  ELSE Outcome(written.fs, {}, Success(filePath, outputPath), t2 \o <<"write">>)

\* decryptFile (dec.js); a failure ends the process with exit status 1
dec_decryptFile(files, table, filePath, algorithm, secretKey, overwrite, g) ==
  IF ~existsSync(files, filePath)
  THEN Outcome(files, {}, Failure(filePath, "File not found"), <<"exists">>)
  ELSE IF filePath.ext # ".enc"
  THEN Outcome(files, {}, Failure(filePath, "File must have .enc extension"), <<"exists">>)
  ELSE
  LET encryptedContent == readFileSync(files, filePath) IN
  IF ~encryptedContent.ok
  THEN Outcome(files, {}, Failure(filePath, encryptedContent.error), <<"exists", "read">>)
  ELSE
  LET parsed == JsonParse(encryptedContent.content)
      encryptedData == parsed.obj
  IN
  IF ~parsed.ok
  THEN Outcome(files, {}, Failure(filePath, "Invalid encrypted file format"),
               <<"exists", "read", "parse">>)
  ELSE IF ~Truthy(encryptedData, "iv") \/ ~Truthy(encryptedData, "encrypted")
  THEN Outcome(files, {}, Failure(filePath, "Invalid encrypted file structure"),
               <<"exists", "read", "parse", "fields">>)
  ELSE
  LET decryptedContent == dec_decryptData(encryptedData, algorithm, secretKey, table, g)
      t1 == <<"exists", "read", "parse", "fields">> \o decryptedContent.ops
  IN
  IF ~decryptedContent.ok
  THEN Outcome(files, {}, Failure(filePath, decryptedContent.error), t1)
  ELSE IF JsonParseText(decryptedContent.text) = Invalid
  THEN Outcome(files, {},
               Failure(filePath, "Decryption failed: Invalid secret key or corrupted data"),
               t1 \o <<"jsonparse">>)
  ELSE
  LET outputPath == dec_ReplaceEncSuffix(filePath)
      t2 == t1 \o <<"jsonparse", "exists">>
  IN
  IF existsSync(files, outputPath) /\ ~overwrite
  THEN Outcome(files, {}, Failure(filePath, "Output file already exists"), t2)
  ELSE
  LET formattedJson == JsonStringify(JsonParseText(decryptedContent.text), 0)
      written == writeFileSync(files, outputPath, Txt(formattedJson))
  IN
  IF ~written.ok
  THEN Outcome(files, {}, Failure(filePath, written.error), t2 \o <<"write">>)
  ELSE Outcome(written.fs, {}, Success(filePath, outputPath), t2 \o <<"write">>)

(***************************************************************************)
(* The inputs of the model.                                                *)
(***************************************************************************)
Secrets == {"s1", "s2"}

\* the algorithms the commands are run with on the directory
RunAlgs == { <<"aes", "256", "gcm">>, <<"aes", "256", "cbc">> }

Text16 == <<"[">> \o [i \in 1..14 |-> "1"] \o <<"]">>

\* valid JSON texts given to encryptData
ValidTexts == { <<"1">>, <<"[", " ", "1", "]">>, Text16 }

\* what CBC decryption makes of a ciphertext sealed with another key, iv or
\* mode: "bad decrypt", or bytes that are no JSON text
CbcWrong ==
  { [throws |-> TRUE, bytes |-> <<>>],
    [throws |-> FALSE, bytes |-> <<>>],
    [throws |-> FALSE, bytes |-> <<200, 49>>] }

\* the choices a decryption with the algorithm has: those of CbcWrong in CBC
\* mode, none in GCM mode
CbcChoices(algorithm) ==
  IF includes(algorithm, "gcm") THEN { [throws |-> TRUE, bytes |-> <<>>] }
  ELSE CbcWrong

\* an envelope written by hand: iv and encrypted, no authTag
HandMade == [iv |-> ToHex(RandomValue(0)), encrypted |-> ToHex(<<7, 7, 7>>)]

NoIv == [encrypted |-> ToHex(<<7, 7, 7>>)]

Idle ==
  [status |-> "idle", cmd |-> "", algorithm |-> <<>>, secretKey |-> "",
   overwrite |-> FALSE, files |-> <<>>, i |-> 0, tallied |-> FALSE,
   success |-> <<>>, failed |-> <<>>, error |-> ""]

NoFind == [fn |-> "", recursive |-> FALSE, result |-> Found(<<>>)]

NoCfg == [tool |-> ""]

\* no command has run on the directory before the present one
NoFirst == [cmd |-> ""]

NoDec == [impl |-> "", call |-> 0, algorithm |-> <<>>, secretKey |-> "",
          result |-> Thrown("", <<>>)]

\* envelopes an earlier run of batch-enc left in the directory, each with
\* the value the random source returned for it
EarlierGcm == encryptData(Text16, <<"aes", "256", "gcm">>, "s1", RandomValue(15))

EarlierCbc == encryptData(<<"1">>, <<"aes", "256", "cbc">>, "s1", RandomValue(14))

\* a directory: what each of its paths holds
Dir(aj, ae, bj, be, aJ, aE, sj, se) ==
  [p \in Paths |->
     CASE p = Path("a", ".json")    -> aj
       [] p = Path("a", ".enc")     -> ae
       [] p = Path("b", ".json")    -> bj
       [] p = Path("b", ".enc")     -> be
       [] p = Path("a", ".JSON")    -> aJ
       [] p = Path("a", ".ENC")     -> aE
       [] p = SubPath("a", ".json") -> sj
       [] p = SubPath("a", ".enc")  -> se]

PlainTree == [root |-> "dir", link |-> FALSE, sub |-> "absent"]

\* directories of lower-case .json and .enc files
InitFiles ==
  { Dir(aj, ae, bj, be, Absent, Absent, Absent, Absent) :
      aj \in { File(Txt(Text16), TRUE, TRUE), File(Txt(<<"x">>), TRUE, TRUE) },
      ae \in { Absent,
               File(Txt(<<"x">>), TRUE, TRUE),
               File(Obj(EarlierGcm.env), TRUE, TRUE) },
      bj \in { Absent,
               File(Txt(<<"1">>), TRUE, TRUE),
               File(Txt(<<"1">>), FALSE, TRUE) },
      be \in { Absent,
               File(Txt(<<"x">>), TRUE, FALSE),
               File(Obj(NoIv), TRUE, TRUE),
               File(Obj(HandMade), TRUE, TRUE),
               File(Obj(EarlierCbc.env), TRUE, TRUE) } }

\* directories with files whose extension is in upper case
CaseFiles ==
  { Dir(aj, Absent, Absent, Absent, aJ, File(Obj(EarlierGcm.env), TRUE, TRUE),
        Absent, Absent) :
      aj \in { Absent, File(Txt(Text16), TRUE, TRUE) },
      aJ \in { Absent, File(Txt(<<"1">>), TRUE, TRUE) } }

\* directories with a subdirectory, with an entry that cannot be stat'ed,
\* and root paths that are no directory
TreeScenarios ==
  { [files |-> Dir(File(Txt(Text16), TRUE, TRUE), File(Obj(EarlierGcm.env), TRUE, TRUE),
                   Absent, Absent, Absent, Absent, sj, se),
     tree |-> [PlainTree EXCEPT !.sub = "dir"]] :
      sj \in { Absent, File(Txt(<<"1">>), TRUE, TRUE) },
      se \in { Absent, File(Obj(EarlierCbc.env), TRUE, TRUE) } }
  \cup
  { [files |-> Dir(File(Txt(Text16), TRUE, TRUE), File(Obj(EarlierGcm.env), TRUE, TRUE),
                   Absent, Absent, Absent, Absent, Absent, Absent),
     tree |-> t] :
      t \in { [PlainTree EXCEPT !.sub = "locked"], [PlainTree EXCEPT !.link = TRUE] } }
  \cup
  { [files |-> [p \in Paths |-> Absent], tree |-> [PlainTree EXCEPT !.root = r]] :
      r \in {"missing", "file"} }

Scenarios ==
  { [files |-> f, tree |-> PlainTree] : f \in InitFiles \cup CaseFiles }
  \cup TreeScenarios

Init ==
  /\ \E sc \in Scenarios : fs = sc.files /\ dirs = sc.tree
  /\ sealed = {EarlierGcm.seal, EarlierCbc.seal}
  /\ drawn = {RandomValue(14), RandomValue(15)}
  /\ run = Idle
  /\ ops = <<>>
  /\ fs0 = fs
  /\ nruns = 0
  /\ calls = <<>>
  /\ dec = NoDec
  /\ found = NoFind
  /\ cfg = NoCfg
  /\ first = NoFirst

CanStart == run.status # "running" /\ nruns < MaxRuns

\* jsonFiles.length === 0 of batchEncrypt
enc_noFilesFound(jsonFiles) == Len(jsonFiles) = 0

\* encFiles.length === 0 of batchDecrypt
noFilesFound_Ignored(encFiles) == FALSE

noFilesFound(encFiles) == Len(encFiles) = 0

\* the directory check of the command's action: the message it exits with,
\* or ""
validateDirectory(tree) ==
  CASE tree.root = "missing" -> "Directory not found"
    [] tree.root = "file"    -> "Path is not a directory"
    [] OTHER                 -> ""

\* the catch block around batchEncrypt / batchDecrypt for an error thrown by
\* discovery
scanFailed(started, message) ==
  [started EXCEPT !.status = "scanerror", !.error = message]

\* the action of batch-enc from its directory check, and batchEncrypt up to
\* its loop: discovery, and the return on no file
beginBatchEncrypt(algorithm, secretKey, recursive) ==
  /\ LET scan == findJsonFiles(fs, dirs, recursive)
         jsonFiles == scan.files
         started == [Idle EXCEPT !.cmd = "batch-enc", !.algorithm = algorithm,
                                 !.secretKey = secretKey]
     IN
     /\ Cardinality(RandomPool \ drawn) >= Len(jsonFiles)
     /\ run' = IF validateDirectory(dirs) # ""
               THEN [started EXCEPT !.status = "exit1",
                                    !.error = validateDirectory(dirs)]
               ELSE IF scan.threw THEN scanFailed(started, scan.error)
               ELSE IF enc_noFilesFound(jsonFiles)
               THEN [started EXCEPT !.status = "nofiles"]
               ELSE [started EXCEPT !.status = "running",
                                    !.files = jsonFiles, !.tallied = TRUE]
  /\ fs0' = fs
  /\ nruns' = nruns + 1
  /\ ops' = <<>>
  /\ UNCHANGED <<fs, sealed, drawn, calls, dec, dirs, found, cfg>>

\* batch-enc <directory>, one of the commands run on the directory
StartBatchEncrypt(algorithm, secretKey, recursive) ==
  /\ CanStart
  /\ beginBatchEncrypt(algorithm, secretKey, recursive)
  /\ UNCHANGED first

\* batchDecrypt up to its loop
beginBatchDecrypt(algorithm, secretKey, recursive, overwrite) ==
  /\ LET scan == findEncFiles(fs, dirs, recursive)
         encFiles == scan.files
         started == [Idle EXCEPT !.cmd = "batch-dec", !.algorithm = algorithm,
                                 !.secretKey = secretKey, !.overwrite = overwrite]
     IN
     run' = IF validateDirectory(dirs) # ""
            THEN [started EXCEPT !.status = "exit1",
                                 !.error = validateDirectory(dirs)]
            ELSE IF scan.threw THEN scanFailed(started, scan.error)
            ELSE IF noFilesFound(encFiles)
            THEN [started EXCEPT !.status = "nofiles"]
            ELSE [started EXCEPT !.status = "running",
                                 !.files = encFiles, !.tallied = TRUE]
  /\ fs0' = fs
  /\ nruns' = nruns + 1
  /\ ops' = <<>>
  /\ UNCHANGED <<fs, sealed, drawn, calls, dec, dirs, found, cfg>>

\* batch-dec <directory>, one of the commands run on the directory
StartBatchDecrypt(algorithm, secretKey, recursive, overwrite) ==
  /\ CanStart
  /\ beginBatchDecrypt(algorithm, secretKey, recursive, overwrite)
  /\ UNCHANGED first

\* the body of the loop after the file operation, and the catch block
\* around the loop for an error the file operation let escape
Tally_Unshift(out) ==
  IF out.threw THEN [run EXCEPT !.status = "aborted"] ELSE
  LET result == out.result IN
  [run EXCEPT !.i = run.i + 1,
              !.success = IF result.success THEN <<result>> \o run.success
                          ELSE run.success,
              !.failed = IF result.success THEN run.failed
                         ELSE <<result>> \o run.failed]

Tally(out) ==
  IF out.threw THEN [run EXCEPT !.status = "aborted"] ELSE
  LET result == out.result IN
  [run EXCEPT !.i = run.i + 1,
              !.success = IF result.success THEN Append(run.success, result)
                          ELSE run.success,
              !.failed = IF result.success THEN run.failed
                         ELSE Append(run.failed, result)]

\* one iteration of batchEncrypt's loop
EncryptNext(rnd) ==
  /\ run.status = "running" /\ run.cmd = "batch-enc" /\ run.i < Len(run.files)
  /\ rnd \notin drawn
  /\ LET out == encryptFile(fs, run.files[run.i + 1], run.algorithm, run.secretKey,
                            rnd)
     IN /\ fs' = out.fs
        /\ sealed' = sealed \cup out.seals
        /\ ops' = out.ops
        /\ drawn' = IF \E k \in 1..Len(out.ops) : out.ops[k] = "encrypt"
                    THEN drawn \cup {rnd} ELSE drawn
        /\ run' = Tally(out)
  /\ UNCHANGED <<fs0, nruns, calls, dec, dirs, found, cfg, first>>

\* one iteration of batchDecrypt's loop
DecryptNext(g) ==
  /\ run.status = "running" /\ run.cmd = "batch-dec" /\ run.i < Len(run.files)
  /\ LET out == decryptFile(fs, sealed, run.files[run.i + 1], run.algorithm,
                            run.secretKey, run.overwrite, g)
     IN /\ fs' = out.fs
        /\ ops' = out.ops
        /\ run' = Tally(out)
  /\ UNCHANGED <<sealed, drawn, fs0, nruns, calls, dec, dirs, found, cfg, first>>

\* the end of the loop: the report and the outro
BatchReport ==
  /\ run.status = "running" /\ run.i = Len(run.files)
  /\ run' = [run EXCEPT !.status = "done"]
  /\ UNCHANGED <<fs, sealed, drawn, ops, fs0, nruns, calls, dec, dirs, found, cfg, first>>

\* dec <file>: how the command ends, with the outro or with
\* process.exit(1) in the catch block of decryptFile
dec_status_AlwaysOutro(result) == "ok"

dec_status(result) == IF result.success THEN "ok" ELSE "exit1"

\* dec <file>: decryptFile of dec.js, then the outro or exit status 1
Dec(filePath, algorithm, secretKey, overwrite, g) ==
  /\ CanStart
  /\ LET out == dec_decryptFile(fs, sealed, filePath, algorithm, secretKey, overwrite, g)
     IN /\ fs' = out.fs
        /\ ops' = out.ops
        /\ run' = [Idle EXCEPT !.status = dec_status(out.result),
                               !.cmd = "dec", !.algorithm = algorithm,
                               !.secretKey = secretKey, !.overwrite = overwrite,
                               !.files = <<filePath>>, !.i = 1,
                               !.success = IF out.result.success THEN <<out.result>> ELSE <<>>,
                               !.failed = IF out.result.success THEN <<>> ELSE <<out.result>>]
  /\ fs0' = fs
  /\ nruns' = nruns + 1
  /\ UNCHANGED <<sealed, drawn, calls, dec, dirs, found, cfg, first>>

Next ==
  \/ \E a \in RunAlgs, s \in Secrets, r \in BOOLEAN : StartBatchEncrypt(a, s, r)
  \/ \E a \in RunAlgs, s \in Secrets, r \in BOOLEAN, o \in BOOLEAN :
       StartBatchDecrypt(a, s, r, o)
  \/ \E r \in RandomPool : EncryptNext(r)
  \/ \E g \in CbcChoices(run.algorithm) : DecryptNext(g)
  \/ BatchReport
  \/ \E p \in Paths, a \in RunAlgs, s \in Secrets, o \in BOOLEAN :
       \E g \in CbcChoices(a) : Dec(p, a, s, o, g)

Spec == Init /\ [][Next]_vars

(***************************************************************************)
(* The codec on its own: encryptData is called once, and once more, on     *)
(* inputs drawn from ValidTexts, ALGORITHMS and Secrets; calls keeps the   *)
(* pair of calls.  decryptData (of batch-dec.js and of dec.js) is applied  *)
(* to the envelope of the first call with any algorithm and secret.        *)
(***************************************************************************)
CodecInit ==
  /\ fs = [p \in Paths |-> Absent]
  /\ sealed = {}
  /\ drawn = {}
  /\ run = Idle
  /\ ops = <<>>
  /\ fs0 = fs
  /\ nruns = 0
  /\ calls = <<>>
  /\ dec = NoDec
  /\ dirs = [root |-> "missing", link |-> FALSE, sub |-> "absent"]
  /\ found = NoFind
  /\ cfg = NoCfg
  /\ first = NoFirst

CodecEncrypt(data, algorithm, secretKey, rnd) ==
  /\ calls = <<>> \/ Len(calls) = 1
  /\ dec = NoDec
  /\ rnd \notin drawn
  /\ LET r == encryptData(data, algorithm, secretKey, rnd)
         call == [data |-> data, algorithm |-> algorithm, secretKey |-> secretKey,
                  env |-> r.env]
     IN /\ r.ok
        /\ calls' = Append(calls, call)
        /\ sealed' = sealed \cup {r.seal}
        /\ drawn' = drawn \cup {rnd}
  /\ UNCHANGED <<fs, run, ops, fs0, nruns, dec, dirs, found, cfg, first>>

CodecDecrypt(algorithm, secretKey, g) ==
  /\ Len(calls) = 1 /\ dec = NoDec
  /\ dec' = [impl |-> "batch-dec", call |-> 1, algorithm |-> algorithm,
             secretKey |-> secretKey,
             result |-> decryptData(calls[1].env, algorithm, secretKey, sealed, g)]
  /\ UNCHANGED <<fs, sealed, drawn, run, ops, fs0, nruns, calls, dirs, found, cfg, first>>

CodecDecryptDec(algorithm, secretKey, g) ==
  /\ Len(calls) = 1 /\ dec = NoDec
  /\ dec' = [impl |-> "dec", call |-> 1, algorithm |-> algorithm,
             secretKey |-> secretKey,
             result |-> dec_decryptData(calls[1].env, algorithm, secretKey, sealed, g)]
  /\ UNCHANGED <<fs, sealed, drawn, run, ops, fs0, nruns, calls, dirs, found, cfg, first>>

CodecNext ==
  \/ \E d \in ValidTexts, a \in ALGORITHMS, s \in Secrets, r \in RandomPool :
       CodecEncrypt(d, a, s, r)
  \/ \E a \in ALGORITHMS, s \in Secrets, g \in CbcWrong : CodecDecrypt(a, s, g)
  \/ \E a \in ALGORITHMS, s \in Secrets, g \in CbcWrong : CodecDecryptDec(a, s, g)

CodecSpec == CodecInit /\ [][CodecNext]_vars

(***************************************************************************)
(* Discovery on its own: findJsonFiles and findEncFiles are applied, with  *)
(* recursive true and false, to directory trees whose paths hold a file or *)
(* nothing; found keeps the call and what it returned.                     *)
(***************************************************************************)
DiscFiles ==
  [Paths -> { Absent, File(Txt(<<"1">>), TRUE, TRUE) }]

DiscInit ==
  /\ fs \in DiscFiles
  /\ dirs \in Trees
  /\ dirs.root # "dir" => /\ dirs = [PlainTree EXCEPT !.root = dirs.root]
                          /\ \A p \in Paths : ~fs[p].exists
  /\ dirs.sub = "absent" => \A p \in Paths : p.dir = "root/sub" => ~fs[p].exists
  /\ sealed = {}
  /\ drawn = {}
  /\ run = Idle
  /\ ops = <<>>
  /\ fs0 = fs
  /\ nruns = 0
  /\ calls = <<>>
  /\ dec = NoDec
  /\ found = NoFind
  /\ cfg = NoCfg
  /\ first = NoFirst

FindJson(recursive) ==
  /\ found = NoFind
  /\ found' = [fn |-> "findJsonFiles", recursive |-> recursive,
               result |-> findJsonFiles(fs, dirs, recursive)]
  /\ UNCHANGED <<fs, sealed, drawn, run, ops, fs0, nruns, calls, dec, dirs, cfg, first>>

FindEnc(recursive) ==
  /\ found = NoFind
  /\ found' = [fn |-> "findEncFiles", recursive |-> recursive,
               result |-> findEncFiles(fs, dirs, recursive)]
  /\ UNCHANGED <<fs, sealed, drawn, run, ops, fs0, nruns, calls, dec, dirs, cfg, first>>

DiscNext ==
  \/ \E r \in BOOLEAN : FindJson(r)
  \/ \E r \in BOOLEAN : FindEnc(r)

DiscSpec == DiscInit /\ [][DiscNext]_vars

(***************************************************************************)
(* The actions of the three commands up to the call of batchEncrypt,       *)
(* batchDecrypt or decryptFile: where algorithm and secret come from, and  *)
(* the validation of the algorithm.  An option or environment variable     *)
(* that is not set, or is the empty string, is NoAlg or NoSecret.          *)
(***************************************************************************)
NoAlg == <<>>
NoSecret == ""

\* names given with --alg / --algorithm or ENC_ALGORITHM
AlgNames ==
  { NoAlg, <<"aes", "256", "gcm">>, <<"aes", "192", "cbc">>,
    <<"constructor">>, <<"des">> }

SecretValues == { NoSecret, "s1", "s2" }

\* answers at the prompts
PromptAlgs == { <<"aes", "128", "cbc">>, <<"aes", "256", "gcm">> }
PromptSecrets == { "s1", "p" }

\* the properties every object literal inherits from Object.prototype
ObjectPrototype ==
  { <<"constructor">>, <<"toString">>, <<"valueOf">>, <<"hasOwnProperty">> }

\* ALGORITHMS[algorithm] is truthy
enc_supported(algorithm) ==
  algorithm \in ALGORITHMS \/ algorithm \in ObjectPrototype

\* supportedAlgorithms.includes(algorithm) of batch-dec.js and
\* validAlgorithms.includes(algorithm) of dec.js
dec_supported(algorithm) == algorithm \in ALGORITHMS

Resolved(outcome, algorithm, secretKey, prompted) ==
  [outcome |-> outcome, algorithm |-> algorithm, secretKey |-> secretKey,
   prompted |-> prompted]

\* the action of batch-enc and of batch-dec.js after the directory check
batchAction(tool, optAlg, optSecret, envAlg, envSecret, promptAlg, promptSecret) ==
  LET algorithm1 == IF optAlg = NoAlg /\ envAlg # NoAlg THEN envAlg ELSE optAlg
      secretKey1 == IF optSecret = NoSecret /\ envSecret # NoSecret
                    THEN envSecret ELSE optSecret
      interactive == algorithm1 = NoAlg \/ secretKey1 = NoSecret
      algorithm == IF interactive /\ algorithm1 = NoAlg THEN promptAlg ELSE algorithm1
      secretKey == IF interactive /\ secretKey1 = NoSecret THEN promptSecret
                   ELSE secretKey1
      supported == IF tool = "batch-enc" THEN enc_supported(algorithm)
                   ELSE dec_supported(algorithm)
  IN IF ~supported THEN Resolved("unsupported", algorithm, secretKey, interactive)
     ELSE Resolved("run", algorithm, secretKey, interactive)

\* the action of dec
decAction(optAlg, optSecret, envAlg, envSecret, promptAlg, promptSecret) ==
  LET algorithm == IF optAlg # NoAlg THEN optAlg ELSE envAlg
      secret == IF optSecret # NoSecret THEN optSecret ELSE envSecret
  IN IF secret # NoSecret /\ algorithm # NoAlg
     THEN IF ~dec_supported(algorithm)
          THEN Resolved("unsupported", algorithm, secret, FALSE)
          ELSE Resolved("run", algorithm, secret, FALSE)
     ELSE IF optSecret # NoSecret \/ optAlg # NoAlg
     THEN Resolved("required", algorithm, secret, FALSE)
     ELSE Resolved("run", promptAlg, promptSecret, TRUE)

CliInit ==
  /\ fs = [p \in Paths |-> Absent]
  /\ dirs = PlainTree
  /\ sealed = {}
  /\ drawn = {}
  /\ run = Idle
  /\ ops = <<>>
  /\ fs0 = fs
  /\ nruns = 0
  /\ calls = <<>>
  /\ dec = NoDec
  /\ found = NoFind
  /\ cfg = NoCfg
  /\ first = NoFirst

Given(tool, optAlg, optSecret, envAlg, envSecret, promptAlg, promptSecret, result) ==
  [tool |-> tool, optAlg |-> optAlg, optSecret |-> optSecret, envAlg |-> envAlg,
   envSecret |-> envSecret, promptAlg |-> promptAlg, promptSecret |-> promptSecret,
   result |-> result]

CliBatchEnc(optAlg, optSecret, envAlg, envSecret, promptAlg, promptSecret) ==
  /\ cfg = NoCfg
  /\ cfg' = Given("batch-enc", optAlg, optSecret, envAlg, envSecret, promptAlg,
                  promptSecret,
                  batchAction("batch-enc", optAlg, optSecret, envAlg, envSecret,
                              promptAlg, promptSecret))
  /\ UNCHANGED <<fs, sealed, drawn, run, ops, fs0, nruns, calls, dec, dirs, found, first>>

CliBatchDec(optAlg, optSecret, envAlg, envSecret, promptAlg, promptSecret) ==
  /\ cfg = NoCfg
  /\ cfg' = Given("batch-dec", optAlg, optSecret, envAlg, envSecret, promptAlg,
                  promptSecret,
                  batchAction("batch-dec", optAlg, optSecret, envAlg, envSecret,
                              promptAlg, promptSecret))
  /\ UNCHANGED <<fs, sealed, drawn, run, ops, fs0, nruns, calls, dec, dirs, found, first>>

CliDec(optAlg, optSecret, envAlg, envSecret, promptAlg, promptSecret) ==
  /\ cfg = NoCfg
  /\ cfg' = Given("dec", optAlg, optSecret, envAlg, envSecret, promptAlg,
                  promptSecret,
                  decAction(optAlg, optSecret, envAlg, envSecret, promptAlg,
                            promptSecret))
  /\ UNCHANGED <<fs, sealed, drawn, run, ops, fs0, nruns, calls, dec, dirs, found, first>>

CliNext ==
  \E oa \in AlgNames, os \in SecretValues, ea \in AlgNames, es \in SecretValues,
     pa \in PromptAlgs, ps \in PromptSecrets :
    \/ CliBatchEnc(oa, os, ea, es, pa, ps)
    \/ CliBatchDec(oa, os, ea, es, pa, ps)
    \/ CliDec(oa, os, ea, es, pa, ps)

CliSpec == CliInit /\ [][CliNext]_vars

(***************************************************************************)
(* batch-enc and then batch-dec on one directory, with the algorithm, the  *)
(* secret and the recursive flag of batch-enc and with --overwrite.  The   *)
(* .json files of the directory all hold valid JSON and can be read and    *)
(* written; first keeps the directory as it was and the results of         *)
(* batch-enc.                                                              *)
(***************************************************************************)
TripScenarios ==
  { [files |->
       Dir(aj,
           IF stale = "a.enc" THEN File(Txt(<<"x">>), TRUE, TRUE) ELSE Absent,
           IF extra = "b.json" THEN File(Txt(<<"1">>), TRUE, TRUE) ELSE Absent,
           CASE stale = "b.enc, hand made" -> File(Obj(HandMade), TRUE, TRUE)
             [] stale = "b.enc, earlier"   -> File(Obj(EarlierCbc.env), TRUE, TRUE)
             [] OTHER                      -> Absent,
           IF extra = "a.JSON" THEN File(Txt(<<"1">>), TRUE, TRUE) ELSE Absent,
           Absent,
           IF extra = "sub/a.json" THEN File(Txt(<<"1">>), TRUE, TRUE) ELSE Absent,
           Absent),
     tree |-> IF extra = "sub/a.json" THEN [PlainTree EXCEPT !.sub = "dir"]
              ELSE PlainTree] :
      aj \in {Absent} \cup { File(Txt(t), TRUE, TRUE) : t \in ValidTexts },
      extra \in {"", "b.json", "a.JSON", "sub/a.json"},
      stale \in {"", "a.enc", "b.enc, hand made", "b.enc, earlier"} }

TripInit ==
  /\ \E sc \in TripScenarios : fs = sc.files /\ dirs = sc.tree
  /\ sealed = {EarlierGcm.seal, EarlierCbc.seal}
  /\ drawn = {RandomValue(14), RandomValue(15)}
  /\ run = Idle
  /\ ops = <<>>
  /\ fs0 = fs
  /\ nruns = 0
  /\ calls = <<>>
  /\ dec = NoDec
  /\ found = NoFind
  /\ cfg = NoCfg
  /\ first = NoFirst

\* batch-enc <directory> --alg ... --secret ... [-r]
TripEncrypt(algorithm, secretKey, recursive) ==
  /\ first = NoFirst
  /\ beginBatchEncrypt(algorithm, secretKey, recursive)
  /\ first' = [cmd |-> "batch-enc", fs |-> fs, recursive |-> recursive, run |-> Idle]

\* batch-dec <directory> with the same values and --overwrite, after
\* batch-enc has ended
TripDecrypt ==
  /\ first # NoFirst /\ first.run = Idle
  /\ run.cmd = "batch-enc" /\ run.status # "running"
  /\ beginBatchDecrypt(run.algorithm, run.secretKey, first.recursive, TRUE)
  /\ first' = [first EXCEPT !.run = run]

TripNext ==
  \/ \E a \in RunAlgs, s \in Secrets, r \in BOOLEAN : TripEncrypt(a, s, r)
  \/ \E r \in RandomPool : EncryptNext(r)
  \/ TripDecrypt
  \/ \E g \in CbcChoices(run.algorithm) : DecryptNext(g)
  \/ BatchReport

TripSpec == TripInit /\ [][TripNext]_vars

(***************************************************************************)
(* decryptFile of batch-dec.js and decryptFile of dec.js on their own:     *)
(* each is called once with the same file, algorithm, secret and overwrite *)
(* flag on the same directory; calls keeps the two calls and what each     *)
(* returned and left in the directory.                                     *)
(***************************************************************************)
FileCall(fn, filePath, algorithm, secretKey, overwrite, g, out) ==
  [fn |-> fn, filePath |-> filePath, algorithm |-> algorithm,
   secretKey |-> secretKey, overwrite |-> overwrite, g |-> g, out |-> out]

CallDecryptFile(filePath, algorithm, secretKey, overwrite, g) ==
  /\ calls = <<>>
  /\ calls' = << FileCall("batch-dec", filePath, algorithm, secretKey, overwrite, g,
                          decryptFile(fs, sealed, filePath, algorithm, secretKey,
                                      overwrite, g)) >>
  /\ UNCHANGED <<fs, sealed, drawn, run, ops, fs0, nruns, dec, dirs, found, cfg, first>>

CallDecDecryptFile ==
  /\ Len(calls) = 1
  /\ LET c == calls[1] IN
     calls' = Append(calls,
                     FileCall("dec", c.filePath, c.algorithm, c.secretKey,
                              c.overwrite, c.g,
                              dec_decryptFile(fs, sealed, c.filePath, c.algorithm,
                                              c.secretKey, c.overwrite, c.g)))
  /\ UNCHANGED <<fs, sealed, drawn, run, ops, fs0, nruns, dec, dirs, found, cfg, first>>

AgreeNext ==
  \/ \E p \in Paths, a \in RunAlgs, s \in Secrets, o \in BOOLEAN :
       \E g \in CbcChoices(a) : CallDecryptFile(p, a, s, o, g)
  \/ CallDecDecryptFile

AgreeSpec == Init /\ [][AgreeNext]_vars

(***************************************************************************)
(* Vocabulary of the properties.                                           *)
(***************************************************************************)
BatchCmds == {"batch-enc", "batch-dec"}
DecCmds == {"batch-dec", "dec"}

AuthError == "Unsupported state or unable to authenticate data"
OutputExists == "Output file already exists"

\* the output path the running command derives from an input path
OutputOf(p) ==
  CASE run.cmd = "batch-enc" -> ReplaceJsonSuffix(p)
    [] run.cmd = "batch-dec" -> ReplaceEncSuffix(p)
    [] OTHER                 -> dec_ReplaceEncSuffix(p)

\* the errors recorded for an input file, and whether a success is recorded
FailedWith(p) ==
  { run.failed[k].error :
      k \in { n \in 1..Len(run.failed) : run.failed[n].inputFile = p } }

Succeeded(p) == \E k \in 1..Len(run.success) : run.success[k].inputFile = p

Recorded(p) ==
  Cardinality({ n \in 1..Len(run.failed) : run.failed[n].inputFile = p })
  + Cardinality({ n \in 1..Len(run.success) : run.success[n].inputFile = p })

\* the file held, when the run started, a readable envelope with iv and
\* encrypted
HoldsEnvelope(p) ==
  /\ fs0[p].exists /\ fs0[p].readable
  /\ fs0[p].content.kind = "object"
  /\ Truthy(fs0[p].content.obj, "iv")
  /\ Truthy(fs0[p].content.obj, "encrypted")

\* the output path of p holds what it held when the command started, or what
\* the success of another input file with the same output path wrote there
OutputKept(p) ==
  \/ fs[OutputOf(p)] = fs0[OutputOf(p)]
  \/ \E k \in 1..Len(run.success) : /\ run.success[k].inputFile # p
                                     /\ run.success[k].outputFile = OutputOf(p)

\* dec.js takes the file for an envelope only under a name ending in .enc
NamedEnc(p) == run.cmd = "dec" => p.ext = ".enc"

\* the encryptions that produced the envelope of the file
SealsOf(p) ==
  LET env == fs0[p].content.obj IN
  { e \in sealed : /\ ToHex(e.iv) = env.iv
                   /\ ToHex(e.ct) = env.encrypted
                   /\ e.mode = "gcm" => /\ Truthy(env, "authTag")
                                        /\ ToHex(e.tag) = env.authTag }

CipherOps ==
  {"scrypt", "createDecipheriv", "setAuthTag", "setAAD", "update", "final"}

RanCipher == \E k \in 1..Len(ops) : ops[k] \in CipherOps

(***************************************************************************)
(* C1.  Round trip: decryptData, of batch-dec.js and of dec.js, applied    *)
(* with the profile and the secret of the encryptData call to the envelope *)
(* that call returned, returns the text that was encrypted, which parses   *)
(* to the JSON value the plaintext parses to.                              *)
(***************************************************************************)
C1_RoundTrip ==
  ( /\ dec.impl # ""
    /\ dec.algorithm = calls[dec.call].algorithm
    /\ dec.secretKey = calls[dec.call].secretKey )
  => /\ dec.result.ok
     /\ JsonParseText(dec.result.text) # Invalid
     /\ JsonParseText(dec.result.text) = JsonParseText(calls[dec.call].data)
     /\ dec.result.text = calls[dec.call].data

C1_Witness ==
  /\ dec.impl = "dec"
  /\ dec.algorithm = <<"aes", "192", "cbc">>
  /\ calls[1].algorithm = <<"aes", "192", "cbc">>
  /\ dec.secretKey = calls[1].secretKey
  /\ calls[1].data = <<"[", " ", "1", "]">>
  /\ dec.result.ok
  /\ JsonParseText(dec.result.text) = <<"[", "1", "]">>

(***************************************************************************)
(* C2.  Batch isolation: in batch-enc and batch-dec no error of a file     *)
(* operation ends the batch (the run is never aborted); every file         *)
(* processed so far has exactly one recorded outcome, a file that was      *)
(* unreadable or held no JSON has a failed one, and a report is made only  *)
(* after every discovered file was processed.                              *)
(***************************************************************************)
C2_BatchIsolation ==
  run.cmd \in BatchCmds =>
    /\ run.status # "aborted"
    /\ Len(run.success) + Len(run.failed) = run.i
    /\ \A j \in 1..run.i :
         LET p == run.files[j] IN
         /\ Recorded(p) = 1
         /\ (~fs0[p].readable \/ ~JsonParse(fs0[p].content).ok)
              => FailedWith(p) # {} /\ ~Succeeded(p)
    /\ \A j \in (run.i + 1)..Len(run.files) : Recorded(run.files[j]) = 0
    /\ run.status = "done" => run.i = Len(run.files)

C2_Witness ==
  /\ run.cmd = "batch-enc" /\ run.status = "done"
  /\ Len(run.files) = 2
  /\ "SyntaxError" \in FailedWith(run.files[1])
  /\ Succeeded(run.files[2])

(***************************************************************************)
(* C3.  Overwrite gate of batch-enc, as the specification states it: a     *)
(* readable JSON file whose derived .enc path existed when the run started *)
(* gets a failed outcome and the .enc file keeps its content.              *)
(***************************************************************************)
C3_OverwriteGateEncryption ==
  run.cmd = "batch-enc" =>
    \A j \in 1..run.i :
      LET p == run.files[j] IN
      ( /\ fs0[p].readable
        /\ JsonParse(fs0[p].content).ok
        /\ fs0[OutputOf(p)].exists )
      => /\ FailedWith(p) # {}
         /\ ~Succeeded(p)
         /\ OutputKept(p)

(***************************************************************************)
(* C4.  Overwrite gate of decryption: with overwrite false, a file whose   *)
(* derived .json path existed when the command started gets a failed       *)
(* outcome, never a success, and the .json file keeps its content; a batch *)
(* is not aborted and reports only after processing every file.            *)
(***************************************************************************)
C4_OverwriteGateDecryption ==
  (run.cmd \in DecCmds /\ ~run.overwrite) =>
    /\ \A j \in 1..run.i :
         LET p == run.files[j] IN
         (fs0[p].exists /\ fs0[OutputOf(p)].exists /\ OutputOf(p) # p)
         => /\ FailedWith(p) # {}
            /\ ~Succeeded(p)
            /\ OutputKept(p)
    /\ run.status # "aborted"
    /\ run.status = "done" => run.i = Len(run.files)

C4_Witness ==
  /\ run.cmd = "batch-dec" /\ ~run.overwrite /\ run.status = "done"
  /\ Len(run.files) = 2
  /\ FailedWith(run.files[1]) = {OutputExists}
  /\ fs0[OutputOf(run.files[1])].exists
  /\ fs[OutputOf(run.files[1])] = fs0[OutputOf(run.files[1])]
  /\ Recorded(run.files[2]) = 1

(***************************************************************************)
(* C5.  Missing authTag, as the specification states it: the last file     *)
(* the command processed held an envelope with iv and encrypted and no     *)
(* authTag, the profile is GCM: the file failed with a malformed-envelope  *)
(* error and no cipher operation ran.                                      *)
(***************************************************************************)
MalformedErrors ==
  { "Invalid encrypted file format: missing authTag for GCM mode",
    "Invalid encrypted file format: missing iv or encrypted data",
    "Invalid encrypted file structure",
    "Invalid encrypted file format" }

C5_MissingAuthTag ==
  ( /\ run.cmd \in DecCmds
    /\ includes(run.algorithm, "gcm")
    /\ run.i >= 1
    /\ HoldsEnvelope(run.files[run.i])
    /\ ~Truthy(fs0[run.files[run.i]].content.obj, "authTag") )
  => /\ FailedWith(run.files[run.i]) \subseteq MalformedErrors
     /\ FailedWith(run.files[run.i]) # {}
     /\ ~RanCipher

\* the part of C5 that batch-dec.js keeps
C5_BatchDecOnly ==
  ( /\ run.cmd = "batch-dec"
    /\ includes(run.algorithm, "gcm")
    /\ run.i >= 1
    /\ HoldsEnvelope(run.files[run.i])
    /\ ~Truthy(fs0[run.files[run.i]].content.obj, "authTag") )
  => /\ FailedWith(run.files[run.i])
          = {"Invalid encrypted file format: missing authTag for GCM mode"}
     /\ ~RanCipher

(***************************************************************************)
(* C6.  Envelope shape: every .enc file batch-enc wrote for a success      *)
(* holds an object whose fields are iv and encrypted, and authTag exactly  *)
(* when the profile is GCM; iv is 32 hexadecimal digits (16 bytes); no     *)
(* other field, so none that names the algorithm, is present.              *)
(***************************************************************************)
EnvelopeShape(env, algorithm) ==
  /\ DOMAIN env = IF includes(algorithm, "gcm")
                  THEN {"iv", "encrypted", "authTag"}
                  ELSE {"iv", "encrypted"}
  /\ Len(env.iv) = 32
  /\ Len(FromHex(env.iv)) = 16
  /\ ToHex(FromHex(env.iv)) = env.iv
  /\ env.encrypted # <<>>

C6_EnvelopeShape ==
  run.cmd = "batch-enc" =>
    \A k \in 1..Len(run.success) :
      LET f == fs[run.success[k].outputFile] IN
      /\ run.success[k].outputFile = ReplaceJsonSuffix(run.success[k].inputFile)
      /\ f.exists
      /\ f.content.kind = "object"
      /\ EnvelopeShape(f.content.obj, run.algorithm)

C6_Witness ==
  /\ run.cmd = "batch-enc"
  /\ run.algorithm = <<"aes", "256", "cbc">>
  /\ Len(run.success) = 2
  /\ DOMAIN fs[run.success[2].outputFile].content.obj = {"iv", "encrypted"}

(***************************************************************************)
(* C7.  Wrong secret, GCM: a file holding an envelope that encryptData     *)
(* made with a GCM profile and a secret S, decrypted with the same profile *)
(* and another secret, fails with the authentication error of              *)
(* decipher.final(); no success is recorded and the output file is as it   *)
(* was when the command started.                                           *)
(***************************************************************************)
C7_WrongSecretGcm ==
  (run.cmd \in DecCmds /\ includes(run.algorithm, "gcm")) =>
    \A j \in 1..run.i :
      LET p == run.files[j] IN
      ( /\ HoldsEnvelope(p)
        /\ NamedEnc(p)
        /\ \E e \in SealsOf(p) : /\ e.mode = "gcm"
                                 /\ e.key.len = CipherKeyLen(run.algorithm)
                                 /\ e.key.secret # run.secretKey )
      => /\ FailedWith(p) = {AuthError}
         /\ ~Succeeded(p)
         /\ OutputKept(p)

C7_Witness ==
  /\ run.cmd = "batch-dec"
  /\ run.algorithm = <<"aes", "256", "gcm">>
  /\ run.secretKey = "s2"
  /\ run.i >= 1
  /\ fs0[run.files[1]].content = Obj(EarlierGcm.env)
  /\ FailedWith(run.files[1]) = {AuthError}
  /\ \E k \in 1..Len(ops) : ops[k] = "final"

(***************************************************************************)
(* C8.  Wrong profile: a file holding an envelope that encryptData made    *)
(* with a GCM profile, decrypted with a CBC profile and the same secret,   *)
(* fails with an error of the cipher (cipher set-up, block length,         *)
(* padding) or of the JSON parse of the decrypted bytes; no success is     *)
(* recorded and the output file is as it was when the command started.     *)
(***************************************************************************)
StructuralOrParseErrors ==
  { "cipher init", "wrong final block length", "bad decrypt", "SyntaxError",
    "Decryption failed: Invalid secret key or corrupted data" }

SameInputs ==
  /\ calls[1].data = calls[2].data
  /\ calls[1].algorithm = calls[2].algorithm
  /\ calls[1].secretKey = calls[2].secretKey

C10_EmptyBatch ==
  /\ run.status = "nofiles" =>
       /\ run.cmd \in BatchCmds
       /\ ~run.tallied
       /\ run.success = <<>> /\ run.failed = <<>> /\ run.i = 0
       /\ ops = <<>>
       /\ fs = fs0
       /\ \A p \in Paths :
            fs0[p].exists => toLowerCase(p.ext) # (IF run.cmd = "batch-enc"
                                                  THEN ".json" ELSE ".enc")
                             \/ p.dir # "root"
  /\ (run.cmd \in BatchCmds /\ run.status \in {"running", "done"}) =>
       /\ run.tallied
       /\ Len(run.files) > 0
       /\ \A j \in 1..Len(run.files) : fs0[run.files[j]].exists

C10_Witness ==
  /\ run.status = "nofiles"
  /\ run.cmd = "batch-dec"
  /\ \A p \in Paths : ~fs[p].exists \/ toLowerCase(p.ext) # ".enc"
  /\ ~run.tallied

(***************************************************************************)
(* C11.  Batch completion, as the specification states it: when the root   *)
(* path is a directory a batch command ends with the no-files result or    *)
(* goes through its loop and reports a tally over every discovered file;   *)
(* the command stops without one only when the root path is missing or is  *)
(* no directory.                                                           *)
(***************************************************************************)
C11_BatchCompletion ==
  run.cmd \in BatchCmds =>
    /\ dirs.root = "dir" => run.status \in {"running", "done", "nofiles"}
    /\ run.status = "exit1" => dirs.root \in {"missing", "file"}
    /\ run.status = "done" => /\ run.tallied
                              /\ Len(run.success) + Len(run.failed) = Len(run.files)

\* the part of C11 the code keeps: a run whose discovery threw nothing
\* completes with a tally, even when every file failed
C11_AfterDiscovery ==
  (run.cmd \in BatchCmds /\ dirs.root = "dir" /\ run.status # "scanerror") =>
    /\ run.status \in {"running", "done", "nofiles"}
    /\ run.status = "done" => /\ run.tallied
                              /\ Len(run.success) + Len(run.failed) = Len(run.files)

(***************************************************************************)
(* C12.  Output path derivation, as the specification states it: every     *)
(* success has as output path the input path with its .json suffix (batch- *)
(* enc) or its .enc suffix (batch-dec, dec), in either case of letters,    *)
(* replaced by .enc or .json; and dec does not turn away a file for a name *)
(* ending in .ENC.                                                         *)
(***************************************************************************)
Derived(p) ==
  IF run.cmd = "batch-enc"
  THEN IF p.ext \in {".json", ".JSON"} THEN [p EXCEPT !.ext = ".enc"] ELSE p
  ELSE IF p.ext \in {".enc", ".ENC"} THEN [p EXCEPT !.ext = ".json"] ELSE p

C12_OutputPathDerivation ==
  run.cmd # "" =>
    /\ \A k \in 1..Len(run.success) :
         run.success[k].outputFile = Derived(run.success[k].inputFile)
    /\ \A j \in 1..run.i :
         (run.files[j].ext \in {".enc", ".ENC"} /\ fs0[run.files[j]].exists)
         => "File must have .enc extension" \notin FailedWith(run.files[j])

\* the part of C12 the batch commands keep
C12_BatchOnly ==
  run.cmd \in BatchCmds =>
    /\ \A k \in 1..Len(run.success) :
         run.success[k].outputFile = Derived(run.success[k].inputFile)
    /\ \A j \in 1..Len(run.files) : Derived(run.files[j]) # run.files[j]

(***************************************************************************)
(* C13.  Discovery: when findJsonFiles / findEncFiles return, they return, *)
(* each once, exactly the files whose extension is the filter in either    *)
(* case of letters and which are in the root, or anywhere in the tree when *)
(* recursive is true; nothing else (no directory, no entry of another      *)
(* extension, and with recursive false no file of the subdirectory).       *)
(***************************************************************************)
Matching(fn, recursive) ==
  { p \in Paths :
      /\ fs[p].exists
      /\ p.ext \in (IF fn = "findJsonFiles" THEN {".json", ".JSON"}
                                            ELSE {".enc", ".ENC"})
      /\ p.dir = "root" \/ recursive }

C13_Discovery ==
  (found.fn # "" /\ ~found.result.threw) =>
    LET list == found.result.files IN
    /\ { list[k] : k \in 1..Len(list) } = Matching(found.fn, found.recursive)
    /\ Cardinality({ list[k] : k \in 1..Len(list) }) = Len(list)

C13_Witness ==
  /\ found.fn = "findEncFiles" /\ found.recursive
  /\ ~found.result.threw
  /\ Len(found.result.files) = 3
  /\ \E k \in 1..3 : found.result.files[k] = SubPath("a", ".enc")
  /\ \E k \in 1..3 : found.result.files[k] = Path("a", ".ENC")
  /\ fs[SubPath("a", ".json")].exists /\ fs[Path("a", ".json")].exists

NotJsonErrors ==
  { "SyntaxError", "Decryption failed: Invalid secret key or corrupted data" }

C15_JsonGate ==
  run.cmd \in DecCmds =>
    /\ \A k \in 1..Len(run.success) :
         LET f == fs[run.success[k].outputFile] IN
         /\ f.exists /\ f.content.kind = "text"
         /\ JsonParseText(f.content.text) # Invalid
    /\ \A j \in 1..run.i :
         FailedWith(run.files[j]) \cap NotJsonErrors # {}
         => ~Succeeded(run.files[j]) /\ OutputKept(run.files[j])
    /\ (ops # <<>> /\ ops[Len(ops)] = "jsonparse")
         => FailedWith(run.files[run.i]) \cap NotJsonErrors # {}

C15_Witness ==
  /\ run.cmd = "batch-dec" /\ run.overwrite
  /\ run.algorithm = <<"aes", "256", "cbc">> /\ run.secretKey = "s2"
  /\ run.i >= 1
  /\ fs0[run.files[run.i]].content = Obj(EarlierCbc.env)
  /\ ops # <<>> /\ ops[Len(ops)] = "jsonparse"
  /\ FailedWith(run.files[run.i]) = {"SyntaxError"}
  /\ ~fs[OutputOf(run.files[run.i])].exists

(***************************************************************************)
(* C16.  Configuration precedence: for algorithm and secret separately,    *)
(* the value a command uses is the command-line option if given, else the  *)
(* environment value if set, else the answer at the prompt; every          *)
(* invocation resolves both values this way, for dec and for the batch     *)
(* commands.                                                               *)
(***************************************************************************)
Precedence(option, environment, prompt, none) ==
  IF option # none THEN option
  ELSE IF environment # none THEN environment
  ELSE prompt

ResolvedByPrecedence ==
  /\ cfg.result.outcome # "required"
  /\ cfg.result.algorithm =
       Precedence(cfg.optAlg, cfg.envAlg, cfg.promptAlg, NoAlg)
  /\ cfg.result.secretKey =
       Precedence(cfg.optSecret, cfg.envSecret, cfg.promptSecret, NoSecret)

C16_ConfigPrecedence == cfg.tool # "" => ResolvedByPrecedence

\* batch-enc and batch-dec do resolve both values by the precedence
C16_BatchOnly == cfg.tool \in BatchCmds => ResolvedByPrecedence

\* dec replaces the algorithm of the environment by the answer at the prompt
C16_DecPromptReplacesEnv ==
  /\ cfg.tool = "dec"
  /\ cfg.optAlg = NoAlg /\ cfg.optSecret = NoSecret
  /\ cfg.envAlg = <<"aes", "256", "gcm">> /\ cfg.envSecret = NoSecret
  /\ cfg.promptAlg = <<"aes", "128", "cbc">>
  /\ cfg.result.outcome = "run"
  /\ cfg.result.algorithm = <<"aes", "128", "cbc">>

(***************************************************************************)
(* C17.  Supported profiles: a command that has resolved its algorithm     *)
(* goes on to discovery and to the files exactly when the name is one of   *)
(* the six names of ALGORITHMS, and rejects every other name as            *)
(* unsupported.                                                            *)
(***************************************************************************)
AcceptsExactlyTheSix ==
  cfg.result.outcome # "required" =>
    (cfg.result.outcome = "run" <=> cfg.result.algorithm \in ALGORITHMS)

C17_SupportedProfiles == cfg.tool # "" => AcceptsExactlyTheSix

\* batch-dec and dec reject every name outside the six
C17_DecCmdsOnly == cfg.tool \in DecCmds => AcceptsExactlyTheSix

\* batch-enc goes on with a name that Object.prototype defines
C17_EncRunsWithConstructor ==
  /\ cfg.tool = "batch-enc"
  /\ cfg.result.algorithm = <<"constructor">>
  /\ cfg.result.outcome = "run"

(***************************************************************************)
(* C18.  Inputs are never mutated: every file a command has processed,     *)
(* with success or with failure, holds what it held when the command       *)
(* started; the output path of every success differs from its input path,  *)
(* and so does the output path of every file a batch command discovers.    *)
(***************************************************************************)
C18_InputsNeverMutated ==
  run.cmd # "" =>
    /\ \A j \in 1..run.i :
         fs0[run.files[j]].exists => fs[run.files[j]] = fs0[run.files[j]]
    /\ \A k \in 1..Len(run.success) :
         run.success[k].outputFile # run.success[k].inputFile
    /\ run.cmd \in BatchCmds =>
         \A j \in 1..Len(run.files) :
           /\ fs0[run.files[j]].exists
           /\ OutputOf(run.files[j]) # run.files[j]

\* batch-dec has written the output of a file over an earlier file and has
\* left the envelope as it was
C18_Witness ==
  /\ run.cmd = "batch-dec" /\ run.overwrite
  /\ run.success # <<>>
  /\ LET r == run.success[1] IN
     /\ fs0[r.outputFile].exists
     /\ fs[r.outputFile] # fs0[r.outputFile]
     /\ fs[r.inputFile] = fs0[r.inputFile]

(***************************************************************************)
(* C19.  Single-file mode stops on the first error: a run of dec ends      *)
(* either with the completion message or with exit status 1; a failure is  *)
(* reported once, ends the run with exit status 1, records no success and  *)
(* leaves every file as it was; the completion message is shown only       *)
(* after a success.                                                        *)
(***************************************************************************)
C19_SingleFileStops ==
  run.cmd = "dec" =>
    /\ run.status \in {"ok", "exit1"}
    /\ Len(run.success) + Len(run.failed) = 1
    /\ run.failed # <<>> => /\ run.status = "exit1"
                            /\ fs = fs0
    /\ run.status = "ok" => /\ run.failed = <<>>
                            /\ fs[run.success[1].outputFile].exists

\* dec has failed on an envelope whose decrypted text is no JSON
C19_Witness ==
  /\ run.cmd = "dec" /\ run.status = "exit1"
  /\ HoldsEnvelope(run.files[1]) /\ NamedEnc(run.files[1])
  /\ ops # <<>> /\ ops[Len(ops)] = "jsonparse"
  /\ Len(run.failed) = 1
  /\ ~fs[OutputOf(run.files[1])].exists

(***************************************************************************)
(* C20.  Batch report invariant: after the i-th iteration of a batch       *)
(* command the first i discovered files have exactly one outcome each, a   *)
(* success {inputFile, outputFile} or a failure {inputFile, error}, and    *)
(* the later files have none; |success| + |failed| = i, which at the       *)
(* report is the number of discovered files; within each list the          *)
(* outcomes are in discovery order.                                        *)
(***************************************************************************)
DiscoveryIndex(p) == CHOOSE j \in 1..Len(run.files) : run.files[j] = p

InDiscoveryOrder(list) ==
  \A k1, k2 \in 1..Len(list) :
    k1 < k2 => DiscoveryIndex(list[k1].inputFile) < DiscoveryIndex(list[k2].inputFile)

C20_BatchReport ==
  run.cmd \in BatchCmds =>
    /\ run.status \in {"exit1", "scanerror", "nofiles", "running", "done"}
    /\ run.i <= Len(run.files)
    /\ Len(run.success) + Len(run.failed) = run.i
    /\ \A k \in 1..Len(run.success) :
         /\ DOMAIN run.success[k] = {"success", "inputFile", "outputFile"}
         /\ run.success[k].success
         /\ run.success[k].outputFile = OutputOf(run.success[k].inputFile)
    /\ \A k \in 1..Len(run.failed) :
         /\ DOMAIN run.failed[k] = {"success", "inputFile", "error"}
         /\ ~run.failed[k].success
    /\ \A j \in 1..Len(run.files) :
         Recorded(run.files[j]) = IF j <= run.i THEN 1 ELSE 0
    /\ InDiscoveryOrder(run.success)
    /\ InDiscoveryOrder(run.failed)
    /\ run.status = "done" => run.i = Len(run.files)

\* a batch has reported two successes, the first discovered file first
C20_Witness ==
  /\ run.cmd \in BatchCmds /\ run.status = "done"
  /\ Len(run.files) = 2 /\ Len(run.success) = 2
  /\ run.success[1].inputFile = run.files[1]
  /\ run.success[2].inputFile = run.files[2]

(***************************************************************************)
(* C21.  Order of checks in decryptFile of batch-dec.js: the steps of one  *)
(* file operation run in the order (1) read and parse, (2) iv and          *)
(* encrypted, (3) authTag, (4) decryptData, (5) JSON parse of the          *)
(* decrypted text, (6) output path, (7) write, none skipped; a success     *)
(* has run all seven, a failure reports the error of the step it stopped   *)
(* at, so "Output file already exists" is reported only after decryptData  *)
(* and the JSON parse went through, and an envelope under another secret   *)
(* whose output exists fails with the error of the cipher.                 *)
(***************************************************************************)
StepOf(op) ==
  CASE op \in {"read", "parse"} -> 1
    [] op = "fields"            -> 2
    [] op = "authTag"           -> 3
    [] op \in CipherOps         -> 4
    [] op = "jsonparse"         -> 5
    [] op = "exists"            -> 6
    [] op = "write"             -> 7

ErrorsOfStep(step) ==
  CASE step = 1 -> {"ENOENT", "EACCES", "SyntaxError"}
    [] step = 2 -> {"Invalid encrypted file format: missing iv or encrypted data"}
    [] step = 3 -> {"Invalid encrypted file format: missing authTag for GCM mode"}
    [] step = 4 -> {AuthError, "cipher init", "wrong final block length", "bad decrypt"}
    [] step = 5 -> {"SyntaxError"}
    [] step = 6 -> {OutputExists}
    [] step = 7 -> {"EACCES"}

C21_OrderOfChecks ==
  (run.cmd = "batch-dec" /\ ops # <<>>) =>
    LET p == run.files[run.i]
        last == StepOf(ops[Len(ops)])
    IN /\ StepOf(ops[1]) = 1
       /\ \A k \in 1..(Len(ops) - 1) :
            StepOf(ops[k + 1]) \in {StepOf(ops[k]), StepOf(ops[k]) + 1}
       /\ Succeeded(p) => last = 7
       /\ ~Succeeded(p) => /\ FailedWith(p) # {}
                           /\ FailedWith(p) \subseteq ErrorsOfStep(last)
       /\ OutputExists \in FailedWith(p) => last = 6
       /\ ( /\ HoldsEnvelope(p)
            /\ includes(run.algorithm, "gcm")
            /\ \E e \in SealsOf(p) : /\ e.mode = "gcm"
                                     /\ e.key.len = CipherKeyLen(run.algorithm)
                                     /\ e.key.secret # run.secretKey
            /\ fs0[OutputOf(p)].exists )
          => /\ last = 4
             /\ FailedWith(p) = {AuthError}

\* an envelope under another secret whose output exists, without overwrite
C21_Witness ==
  /\ run.cmd = "batch-dec" /\ ~run.overwrite
  /\ run.algorithm = <<"aes", "256", "gcm">> /\ run.secretKey = "s2"
  /\ ops # <<>> /\ ops[Len(ops)] = "final"
  /\ fs0[run.files[run.i]].content = Obj(EarlierGcm.env)
  /\ fs0[OutputOf(run.files[run.i])].exists
  /\ FailedWith(run.files[run.i]) = {AuthError}

(***************************************************************************)
(* C22.  No output collision within a batch: the successes of one batch    *)
(* run have pairwise different output paths, so no file of the run is      *)
(* written over the output of an earlier file of the same run.             *)
(***************************************************************************)
C22_NoOutputCollision ==
  run.cmd \in BatchCmds =>
    \A k1, k2 \in 1..Len(run.success) :
      k1 # k2 => run.success[k1].outputFile # run.success[k2].outputFile

\* batch-enc has encrypted a.json and a.JSON, both to a.enc: two envelopes
\* were made and one file holds the later one
C22_EncOverwritesOwnOutput ==
  /\ run.cmd = "batch-enc" /\ run.status = "done"
  /\ Len(run.success) = 2
  /\ run.success[1].inputFile = Path("a", ".json")
  /\ run.success[2].inputFile = Path("a", ".JSON")
  /\ run.success[1].outputFile = Path("a", ".enc")
  /\ run.success[2].outputFile = Path("a", ".enc")
  /\ Cardinality(sealed) = 4
  /\ fs[Path("a", ".enc")].content.kind = "object"

(***************************************************************************)
(* C23.  Batch round trip on the file system: after batch-enc and then     *)
(* batch-dec with the same algorithm, secret and recursive flag and with   *)
(* --overwrite, on a directory whose .json files all hold valid JSON,      *)
(* both runs have reported every file they discovered as a success and     *)
(* every .json file of the directory holds what it held before.            *)
(***************************************************************************)
TripEnded ==
  /\ first # NoFirst /\ first.run # Idle
  /\ run.cmd = "batch-dec" /\ run.status # "running"

AllSucceeded(r) ==
  /\ r.status \in {"done", "nofiles"}
  /\ r.failed = <<>>
  /\ Len(r.success) = Len(r.files)

JsonFilesOf(files) ==
  { p \in Paths : toLowerCase(p.ext) = ".json" /\ files[p].exists }

EncFilesOf(files) ==
  { p \in Paths : toLowerCase(p.ext) = ".enc" /\ files[p].exists }

Restored == \A p \in JsonFilesOf(first.fs) : fs[p] = first.fs[p]

C23_BatchRoundTrip ==
  TripEnded => /\ AllSucceeded(first.run)
               /\ AllSucceeded(run)
               /\ Restored

\* C23 amended: the same, on a directory that holds no .enc file before
\* batch-enc runs and no two .json files with one derived output path; then
\* batch-dec also discovers one envelope per file of batch-enc, and the
\* .json path derived from each holds the text of the file
CleanTree ==
  /\ EncFilesOf(first.fs) = {}
  /\ \A p, q \in JsonFilesOf(first.fs) :
       p # q => ReplaceJsonSuffix(p) # ReplaceJsonSuffix(q)

C23_RoundTripOnCleanTree ==
  (TripEnded /\ CleanTree) =>
    /\ AllSucceeded(first.run)
    /\ AllSucceeded(run)
    /\ Restored
    /\ Len(run.files) = Len(first.run.files)
    /\ \A j \in 1..Len(first.run.files) :
         LET q == first.run.files[j]
             back == ReplaceEncSuffix(ReplaceJsonSuffix(q))
         IN /\ fs[back].exists
            /\ fs[back].content = first.fs[q].content

\* both runs went through a.json, which holds white space, and b.json
C23_Witness ==
  /\ TripEnded /\ CleanTree
  /\ run.status = "done"
  /\ includes(run.algorithm, "gcm")
  /\ first.fs[Path("a", ".json")].content = Txt(<<"[", " ", "1", "]">>)
  /\ first.fs[Path("b", ".json")].exists
  /\ Len(first.run.success) = 2 /\ Len(run.success) = 2
  /\ fs[Path("a", ".enc")].exists /\ fs[Path("b", ".enc")].exists
  /\ fs[Path("a", ".json")] = first.fs[Path("a", ".json")]

(***************************************************************************)
(* C24.  Single-file and batch decryption agree: called on an existing     *)
(* file whose name ends in lower-case .enc, with the same algorithm,       *)
(* secret and overwrite flag, decryptFile of dec.js succeeds exactly when  *)
(* decryptFile of batch-dec.js succeeds; on success both have written the  *)
(* same output path and nothing else, and the two texts parse to the same  *)
(* JSON value.                                                             *)
(***************************************************************************)
BothCalled == Len(calls) = 2 /\ calls[1].fn = "batch-dec" /\ calls[2].fn = "dec"

C24_SingleAndBatchAgree ==
  ( /\ BothCalled
    /\ calls[1].filePath.ext = ".enc"
    /\ fs[calls[1].filePath].exists )
  => LET b == calls[1].out
         d == calls[2].out
     IN /\ b.result.success = d.result.success
        /\ b.result.success =>
             /\ b.result.outputFile = d.result.outputFile
             /\ \A p \in Paths : p # b.result.outputFile =>
                  b.fs[p] = fs[p] /\ d.fs[p] = fs[p]
             /\ b.fs[b.result.outputFile].content.kind = "text"
             /\ d.fs[b.result.outputFile].content.kind = "text"
             /\ JsonParseText(b.fs[b.result.outputFile].content.text) # Invalid
             /\ JsonParseText(b.fs[b.result.outputFile].content.text) =
                  JsonParseText(d.fs[b.result.outputFile].content.text)
        /\ ~b.result.success => b.fs = fs /\ d.fs = fs

\* both have decrypted an envelope; dec.js has written the text re-formatted
C24_Witness ==
  /\ BothCalled
  /\ calls[1].filePath = Path("a", ".enc")
  /\ calls[1].out.result.success /\ calls[2].out.result.success
  /\ calls[1].out.fs[Path("a", ".json")].content = Txt(Text16)
  /\ calls[2].out.fs[Path("a", ".json")].content # Txt(Text16)
  /\ fs[Path("a", ".json")].exists /\ calls[1].overwrite

\* under the name a.ENC the two do not agree: batch-dec.js decrypts the
\* file, dec.js refuses it
C24_UpperCaseDiffers ==
  /\ BothCalled
  /\ calls[1].filePath = Path("a", ".ENC")
  /\ calls[1].out.result.success /\ ~calls[2].out.result.success

====
